---- MODULE Spec2Model ----
(***************************************************************************)
(* Model of OSMRouteRelation (src/src/OSMRouteRelation.ts): the route      *)
(* graph built from a relation's way members, the node-degree bins, the    *)
(* routability verdict, the end nodes and the ordering walk, with the      *)
(* lazily filled caches _routeGraph, _isRoutable and _orderedChildIds, the  *)
(* assembled line string and the statistics with their cache _statistics.  *)
(*                                                                         *)
(* A JS Map is modelled as a sequence of entries [key, val] in insertion   *)
(* order; Map.set on a present key keeps its position and replaces val.    *)
(* Node identifiers are 1..NumNodes; a member's identifier is its position *)
(* in the member list (identifiers are distinct).  A signed reference      *)
(* `${sign}${id}` is the record [sign, id] with sign "" or "-".            *)
(***************************************************************************)
EXTENDS Integers, Sequences, FiniteSets, TLC

\* ---- bounds of the model
NumNodes == 4
MaxMembers == 3
\* the run counts kept with the caches saturate here
RunCap == 2
\* a way has from 2 up to this many coordinates
MaxCoords == 3
\* members of the lists with varied roles, tags and coordinates
MaxTagged == 2

\* JS `undefined` as a node identifier (typeof nextId !== "undefined")
Undefined == 0
\* the "-1" the walk's locals start from
NoId == -1

Nodes == 1..NumNodes

VARIABLES
  members,           \* this.members: the relation's way members, in member order
  _routeGraph,       \* cache: [def, val]
  _isRoutable,       \* cache: [def, val]
  _orderedChildIds,  \* cache: [def, val]
  _statistics,       \* cache: [def, val]
  caller,            \* the accessor that is reading orderedChildIds, "none" when idle
  watch,             \* the accessor whose first outcome is recorded, or "none"
  first,             \* [kind, val, n]: that outcome and how often it was read
  ret,               \* outcome of the last accessor call: [op, kind, val]
  pc,                \* "idle", or "walk" inside orderedChildIds' while loop
  lastId, currId, nextId, endId, orderedChildren   \* locals of orderedChildIds

vars == <<members, _routeGraph, _isRoutable, _orderedChildIds, _statistics,
          caller, watch, first, ret, pc,
          lastId, currId, nextId, endId, orderedChildren>>

\* Each cache record also counts, in n, how many times the computation that
\* fills it has run (up to RunCap); the runs are counted on the routes on
\* which no accessor's first outcome is recorded.
Bump(n) == IF watch # "none" THEN n ELSE IF n < RunCap THEN n + 1 ELSE RunCap

\* ---- members
\* A way member whose element yields its end nodes (a, b), or whose endNodes
\* getter throws (ok = FALSE; a and b are then unused).  Every member is a
\* child (type "way", with an element), so the `member.type === "node"`
\* skip of line 57 never applies.
\* role is the member's role, surface whether the way carries a surface
\* tag, len the number of coordinates of its line.
Shapes(roles, surfaces, lens) ==
  [ok : {TRUE}, a : Nodes, b : Nodes, role : roles, surface : surfaces, len : lens]
    \cup [ok : {FALSE}, a : {Undefined}, b : {Undefined}, role : roles,
          surface : {FALSE}, len : {2}]

MemberShapes == Shapes({"main"}, {FALSE}, {2})

Max(x, y) == IF x > y THEN x ELSE y
Min(x, y) == IF x < y THEN x ELSE y

\* Node identifiers are opaque keys that the code only compares for equality,
\* so member lists are taken up to a renaming of the nodes: the nodes are
\* numbered in the order in which the members first name them.
NamedBy(s) == UNION {{s[i].a, s[i].b} : i \in {j \in 1..Len(s) : s[j].ok}}
FreshAfter(k) == Min(k + 1, NumNodes)
MembersAfterOf(shapes, s) ==
  {m \in shapes :
     \/ ~m.ok
     \/ /\ m.a <= FreshAfter(Cardinality(NamedBy(s)))
        /\ m.b <= FreshAfter(Max(Cardinality(NamedBy(s)), m.a))}

MembersAfter(s) == MembersAfterOf(MemberShapes, s)

\* the member lists of at most n members drawn from shapes
RECURSIVE MemberListsOf(_, _)
MemberListsOf(shapes, n) ==
  IF n = 0 THEN {<<>>}
  ELSE MemberListsOf(shapes, n - 1)
         \cup UNION {{Append(s, m) : m \in MembersAfterOf(shapes, s)} :
                       s \in {t \in MemberListsOf(shapes, n - 1) : Len(t) = n - 1}}

MemberLists(n) == MemberListsOf(MemberShapes, n)

\* ---- Map helpers (insertion-ordered)
MapHas(m, k) == \E i \in 1..Len(m) : m[i].key = k
MapIdx(m, k) == CHOOSE i \in 1..Len(m) : m[i].key = k
MapGet(m, k) == m[MapIdx(m, k)].val
\* variant: an existing key keeps its first value
MapSetKeepFirst(m, k, v) ==
  IF MapHas(m, k) THEN m ELSE Append(m, [key |-> k, val |-> v])

MapSet(m, k, v) ==
  IF MapHas(m, k) THEN [m EXCEPT ![MapIdx(m, k)].val = v]
  ELSE Append(m, [key |-> k, val |-> v])
MapKeys(m) == [i \in 1..Len(m) |-> m[i].key]

\* ---- _buildRouteGraph
\* variant: the node's neighbour map is replaced instead of extended
SetEndPairReplace(routeGraph, from, to, ref) ==
  IF ~MapHas(routeGraph, from)
  THEN Append(routeGraph, [key |-> from, val |-> <<[key |-> to, val |-> ref]>>])
  ELSE [routeGraph EXCEPT ![MapIdx(routeGraph, from)].val = <<[key |-> to, val |-> ref]>>]

\* one endPair [from, to, sign] of a member: lines 66-77
SetEndPair(routeGraph, from, to, ref) ==
  IF ~MapHas(routeGraph, from)
  THEN Append(routeGraph, [key |-> from, val |-> <<[key |-> to, val |-> ref]>>])
  ELSE [routeGraph EXCEPT ![MapIdx(routeGraph, from)].val = MapSet(@, to, ref)]

\* variant: the reversed endPair carries no "-" sign
AddMemberUnsigned(routeGraph, ms, i) ==
  SetEndPair(SetEndPair(routeGraph, ms[i].a, ms[i].b, [sign |-> "", id |-> i]),
             ms[i].b, ms[i].a, [sign |-> "", id |-> i])

\* both endPairs of the member at position i: lines 59-77
AddMember(routeGraph, ms, i) ==
  SetEndPair(SetEndPair(routeGraph, ms[i].a, ms[i].b, [sign |-> "", id |-> i]),
             ms[i].b, ms[i].a, [sign |-> "-", id |-> i])

\* the loop over members from position i on, with the errors collected so far
RECURSIVE BuildFrom(_, _, _, _, _)
BuildFrom(ms, keep, i, routeGraph, errors) ==
  IF i > Len(ms) THEN [graph |-> routeGraph, errors |-> errors]
  ELSE IF ~keep[i] THEN BuildFrom(ms, keep, i + 1, routeGraph, errors)
  ELSE IF ms[i].ok
       THEN BuildFrom(ms, keep, i + 1, AddMember(routeGraph, ms, i), errors)
       ELSE BuildFrom(ms, keep, i + 1, routeGraph, Append(errors, i))

\* variant: the loop stops at the first member whose endNodes throws
RECURSIVE BuildFromEager(_, _, _, _, _)
BuildFromEager(ms, keep, i, routeGraph, errors) ==
  IF i > Len(ms) THEN [graph |-> routeGraph, errors |-> errors]
  ELSE IF ~keep[i] THEN BuildFromEager(ms, keep, i + 1, routeGraph, errors)
  ELSE IF ms[i].ok
       THEN BuildFromEager(ms, keep, i + 1, AddMember(routeGraph, ms, i), errors)
       ELSE [graph |-> routeGraph, errors |-> Append(errors, i)]

\* for (const member of members) { try {...} catch (e) { errors.push(e) } }
BuildLoop(ms, keep, i, routeGraph, errors) ==
  BuildFrom(ms, keep, i, routeGraph, errors)

\* variant: only the members whose role is "main" are kept
MainMaskExact(ms) == [i \in 1..Len(ms) |-> ms[i].role = "main"]

\* this.children.filter((m) => m.role !== "alternative"), as a mask over members
MainMask(ms) == [i \in 1..Len(ms) |-> ms[i].role # "alternative"]

\* line 83 and 85: [ok, graph, errors], ok iff no SuperRouteTopologyError is thrown
BuildOutcome(r) ==
  [ok |-> Len(r.errors) = 0, graph |-> r.graph, errors |-> r.errors]

_buildRouteGraph(ms) == BuildOutcome(BuildLoop(ms, MainMask(ms), 1, <<>>, <<>>))

\* variant: a failed build leaves its partial graph in the cache
routeGraphMissCachePartial(rg, b) ==
  [ok |-> b.ok, graph |-> b.graph, errors |-> b.errors,
   rg |-> [def |-> TRUE, val |-> b.graph, n |-> Bump(rg.n)]]

\* ---- get routeGraph, from cache value rg: [ok, graph, errors, rg]
\* lines 177-181: the build's result b is cached only if the build returns
routeGraphMiss(rg, b) ==
  IF b.ok
  THEN [ok |-> TRUE, graph |-> b.graph, errors |-> <<>>,
        rg |-> [def |-> TRUE, val |-> b.graph, n |-> Bump(rg.n)]]
  ELSE [ok |-> FALSE, graph |-> <<>>, errors |-> b.errors,
        rg |-> [rg EXCEPT !.n = Bump(@)]]

routeGraph(rg) ==
  IF rg.def THEN [ok |-> TRUE, graph |-> rg.val, errors |-> <<>>, rg |-> rg]
  ELSE routeGraphMiss(rg, _buildRouteGraph(members))

\* ---- get nodeDegrees
DegreeBins(graph) ==
  [d \in 0..3 |->
     LET pick(e) == Min(Len(e.val), 3) = d
     IN MapKeys(SelectSeq(graph, pick))]

\* [ok, bins, errors, rg], from the outcome g of the routeGraph read
nodeDegreesOf(g) ==
  [ok |-> g.ok, bins |-> DegreeBins(g.graph), errors |-> g.errors, rg |-> g.rg]

nodeDegrees(rg) == nodeDegreesOf(routeGraph(rg))

\* ---- get isRoutable
\* variant: a round trip is a graph with no degree-1 node at all
RoutableExact(bins) ==
  LET hasNo3PlusDegreeNodes == Len(bins[3]) = 0
      isRoundTrip == Len(bins[1]) = 0
      isOneWay == Len(bins[1]) = 2
  IN hasNo3PlusDegreeNodes /\ (isRoundTrip \/ isOneWay)

\* variant: nodes with 3 or more neighbours are not looked at
RoutableWithForks(bins) ==
  LET isRoundTrip == Len(bins[1]) < 2
      isOneWay == Len(bins[1]) = 2
  IN isRoundTrip \/ isOneWay

Routable(bins) ==
  LET hasNo3PlusDegreeNodes == Len(bins[3]) = 0
      isRoundTrip == Len(bins[1]) < 2
      isOneWay == Len(bins[1]) = 2
  IN hasNo3PlusDegreeNodes /\ (isRoundTrip \/ isOneWay)

\* this._isRoutable = v; return this._isRoutable
Verdict(v, ir, rg) ==
  [kind |-> "value", val |-> v,
   ir |-> [def |-> TRUE, val |-> v, n |-> Bump(ir.n)], rg |-> rg]

\* variant: no try/catch around the nodeDegrees read
isRoutableThrowing(ir, nd) ==
  IF nd.ok THEN Verdict(Routable(nd.bins), ir, nd.rg)
  ELSE [kind |-> "SuperRouteTopologyError", val |-> FALSE,
        ir |-> [ir EXCEPT !.n = Bump(@)], rg |-> nd.rg]

isRoutableNoCatch(ir, rg) ==
  IF ir.def THEN [kind |-> "value", val |-> ir.val, ir |-> ir, rg |-> rg]
  ELSE isRoutableThrowing(ir, nodeDegrees(rg))

\* lines 125-135: the catch turns a failing nodeDegrees read into false
isRoutableTry(ir, nd) ==
  Verdict(IF nd.ok THEN Routable(nd.bins) ELSE FALSE, ir, nd.rg)

\* [kind, val, ir, rg], from cache values ir and rg
isRoutable(ir, rg) ==
  IF ir.def THEN [kind |-> "value", val |-> ir.val, ir |-> ir, rg |-> rg]
  ELSE isRoutableTry(ir, nodeDegrees(rg))

\* ---- new RouteTopologyError(route): [kind, val, rg]
\* lines 455-467
ErrNodes(bins, most) ==
  (IF Len(bins[3]) > 0 THEN bins[3] ELSE <<>>)
    \o (IF Len(bins[1]) > most THEN bins[1] ELSE <<>>)

\* the constructor reads route.nodeDegrees before super(); a failing build
\* escapes from it as SuperRouteTopologyError
ErrorOf(nd, most) ==
  IF nd.ok
  THEN [kind |-> "RouteTopologyError", val |-> ErrNodes(nd.bins, most), rg |-> nd.rg]
  ELSE [kind |-> "SuperRouteTopologyError", val |-> nd.errors, rg |-> nd.rg]

\* variant: the dead ends are listed from two degree-1 nodes on
RouteTopologyErrorFrom2(rg) == ErrorOf(nodeDegrees(rg), 1)

RouteTopologyError(rg) == ErrorOf(nodeDegrees(rg), 2)

\* ---- get endNodes: [kind, val, ir, rg]
At(s, i) == IF i <= Len(s) THEN s[i] ELSE Undefined

\* lines 93-100, r the outcome of this.isRoutable, nd of this.nodeDegrees
endNodesValue(r, nd) ==
  IF ~nd.ok
  THEN [kind |-> "SuperRouteTopologyError", val |-> nd.errors,
        ir |-> r.ir, rg |-> nd.rg]
  ELSE [kind |-> "value",
        val |-> IF Len(nd.bins[1]) = 0
                THEN <<At(nd.bins[2], 1), At(nd.bins[2], 1)>>
                ELSE <<At(nd.bins[1], 1), At(nd.bins[1], 2)>>,
        ir |-> r.ir, rg |-> nd.rg]

\* line 101
endNodesThrow(r, e) ==
  [kind |-> e.kind, val |-> e.val, ir |-> r.ir, rg |-> e.rg]

endNodesAfter(r) ==
  IF r.val THEN endNodesValue(r, nodeDegrees(r.rg))
  ELSE endNodesThrow(r, RouteTopologyError(r.rg))

endNodes(ir, rg) == endNodesAfter(isRoutable(ir, rg))

\* ---- orderedChildIds
\* variant: the first neighbour, the previous node included
_getNextNodeAny(graph, curr, last) == At(MapKeys(MapGet(graph, curr)), 1)

\* the model follows a walk for at most this many steps: a graph has no
\* more than two entries per member
WalkCap == 2 * MaxMembers + 1

_getNextNode(graph, curr, last) ==
  LET other(k) == k # last
  IN At(SelectSeq(MapKeys(MapGet(graph, curr)), other), 1)

\* position of the first node with exactly one neighbour, 0 if none
FirstDegree1(graph) ==
  IF \E i \in 1..Len(graph) : Len(graph[i].val) = 1
  THEN CHOOSE i \in 1..Len(graph) :
         /\ Len(graph[i].val) = 1
         /\ \A j \in 1..(i - 1) : Len(graph[j].val) # 1
  ELSE 0

\* ---- orderedFeatureCollection and lineStringFeature
\* utils: a reference is reversed when it carries the "-" prefix
_isReversed(ref) == ref.sign = "-"
\* utils: the reference without its prefix
_absoluteId(ref) == [sign |-> "", id |-> ref.id]
\* utils: the line with its coordinates in reverse order, as a new feature
reverseLineFeature(coords) == [k \in 1..Len(coords) |-> coords[Len(coords) + 1 - k]]

\* the coordinates of way i, from its end node a to its end node b: the two
\* end nodes' positions and len - 2 positions of its own in between
Coordinate(ms, i, k) ==
  IF k = 1 THEN [node |-> ms[i].a, seg |-> 0, k |-> 0]
  ELSE IF k = ms[i].len THEN [node |-> ms[i].b, seg |-> 0, k |-> 0]
  ELSE [node |-> Undefined, seg |-> i, k |-> k]
Coordinates(ms, i) == [k \in 1..ms[i].len |-> Coordinate(ms, i, k)]

\* lines 277-284: the feature of one ordered child
childFeature(ms, childId) ==
  IF _isReversed(childId)
  THEN reverseLineFeature(Coordinates(ms, _absoluteId(childId).id))
  ELSE Coordinates(ms, childId.id)

orderedFeatureCollection(ms, childIds) ==
  [j \in 1..Len(childIds) |-> childFeature(ms, childIds[j])]

RECURSIVE Concat(_)
Concat(ss) == IF Len(ss) = 0 THEN <<>> ELSE Head(ss) \o Concat(Tail(ss))

\* variant: the later features keep their leading coordinate
lineStringKeepingJoins(features) == Concat(features)

\* lines 319-329: features.shift(), then slice(1) of every other feature
lineStringOf(features) ==
  Head(features) \o Concat([j \in 1..(Len(features) - 1) |-> Tail(features[j + 1])])

lineStringFeature(ms, childIds) == lineStringOf(orderedFeatureCollection(ms, childIds))

\* ---- statistics
\* lines 386-392 for the k-th feature, the way with identifier id; the running
\* surfacePct is the fraction num / den
AddSegment(st, m, id, k) ==
  [numSegments |-> k,
   numNodes |-> st.numNodes + m.len,
   num |-> IF m.surface THEN st.num * k + st.den ELSE st.num,
   den |-> IF m.surface THEN st.den * k ELSE st.den,
   surfaceWays |-> IF m.surface THEN st.surfaceWays ELSE Append(st.surfaceWays, id)]

\* lines 384-408 over the features from position j on
RECURSIVE Aggregate(_, _, _, _)
Aggregate(ms, keep, i, st) ==
  IF i > Len(ms) THEN st
  ELSE IF ~keep[i] THEN Aggregate(ms, keep, i + 1, st)
  ELSE Aggregate(ms, keep, i + 1, AddSegment(st, ms[i], i, st.numSegments + 1))

\* line 433 and 435: Math.round(number * 100) / 100, then * 100; the model
\* keeps the rounded hundredths as an integer
RoundedPct(st) == (200 * st.num + st.den) \div (2 * st.den)

StatisticsRecord(st) ==
  [numSegments |-> st.numSegments, numNodes |-> st.numNodes,
   surfacePct |-> RoundedPct(st), surfaceWays |-> st.surfaceWays]

\* lines 369-408 and 433-439 (sac_scale, length and elevation are left out)
statisticsOf(ms) ==
  StatisticsRecord(Aggregate(ms, MainMask(ms), 1,
    [numSegments |-> 0, numNodes |-> 0, num |-> 0, den |-> 1, surfaceWays |-> <<>>]))

\* featureCollection reads every main child's lineStringFeature; a way whose
\* end nodes cannot be obtained has no line either
FeaturesFail(ms) == \E i \in 1..Len(ms) : MainMask(ms)[i] /\ ~ms[i].ok

Idle == pc = "idle"

ResetLocals ==
  /\ lastId' = NoId /\ currId' = NoId /\ nextId' = NoId /\ endId' = NoId
  /\ orderedChildren' = <<>>
  /\ caller' = "none"

\* the first outcome of the watched accessor is kept, later reads are counted
Recorded(op, kind, val) ==
  IF op # watch THEN first
  ELSE IF first.n = 0 THEN [kind |-> kind, val |-> val, n |-> 1]
  ELSE [first EXCEPT !.n = 2]

Return(op, kind, val) ==
  /\ ret' = [op |-> op, kind |-> kind, val |-> val]
  /\ first' = Recorded(op, kind, val)
  /\ pc' = "idle"
  /\ ResetLocals
  /\ UNCHANGED watch

\* ---- actions: one per accessor
RouteGraphDone(g) ==
  /\ _routeGraph' = g.rg
  /\ IF g.ok THEN Return("routeGraph", "value", g.graph)
     ELSE Return("routeGraph", "SuperRouteTopologyError", g.errors)

GetRouteGraph ==
  /\ Idle
  /\ RouteGraphDone(routeGraph(_routeGraph))
  /\ UNCHANGED <<members, _isRoutable, _orderedChildIds, _statistics>>

NodeDegreesDone(nd) ==
  /\ _routeGraph' = nd.rg
  /\ IF nd.ok THEN Return("nodeDegrees", "value", nd.bins)
     ELSE Return("nodeDegrees", "SuperRouteTopologyError", nd.errors)

GetNodeDegrees ==
  /\ Idle
  /\ NodeDegreesDone(nodeDegrees(_routeGraph))
  /\ UNCHANGED <<members, _isRoutable, _orderedChildIds, _statistics>>

\* the caches after an accessor's outcome r, and its result
AccessorDone(op, r) ==
  /\ _isRoutable' = r.ir
  /\ _routeGraph' = r.rg
  /\ Return(op, r.kind, r.val)

GetIsRoutable ==
  /\ Idle
  /\ AccessorDone("isRoutable", isRoutable(_isRoutable, _routeGraph))
  /\ UNCHANGED <<members, _orderedChildIds, _statistics>>

GetEndNodes ==
  /\ Idle
  /\ AccessorDone("endNodes", endNodes(_isRoutable, _routeGraph))
  /\ UNCHANGED <<members, _orderedChildIds, _statistics>>

\* The outcome of accessor c from the outcome (kind, val) of the orderedChildIds
\* read it makes: orderedChildIds itself, lineStringFeature (lines 317-331) or
\* statistics (lines 413-442, which caches its record; sn is its run count).
Finish(c, kind, val, sn) ==
  IF c = "statistics"
  THEN IF kind = "value"
       THEN /\ _statistics' = [def |-> TRUE, val |-> statisticsOf(members), n |-> sn]
            /\ Return(c, "value", statisticsOf(members))
       ELSE /\ _statistics' = [_statistics EXCEPT !.n = sn]
            /\ Return(c, kind, val)
  ELSE /\ UNCHANGED _statistics
       /\ IF c = "lineStringFeature" /\ kind = "value"
          THEN Return(c, "value", lineStringFeature(members, val))
          ELSE Return(c, kind, val)

\* line 198 and 269: throw new RouteTopologyError(this)
OrderThrow(c, e, sn) ==
  /\ _routeGraph' = e.rg
  /\ Finish(c, e.kind, e.val, sn)

\* entry of the while loop
StartWalk(c, curr, next, end, sn) ==
  /\ pc' = "walk"
  /\ caller' = c
  /\ lastId' = NoId
  /\ currId' = curr
  /\ nextId' = next
  /\ endId' = end
  /\ orderedChildren' = <<>>
  /\ _statistics' = IF c = "statistics" THEN [_statistics EXCEPT !.n = sn]
                    ELSE _statistics
  /\ UNCHANGED <<ret, watch, first>>

\* lines 226-233: the one-way start, at position first of the graph
StartOneWay(c, graph, pos, sn) ==
  StartWalk(c, graph[pos].key, _getNextNode(graph, graph[pos].key, NoId), NoId, sn)

\* lines 236-243: entries().next().value of an empty Map is undefined
StartRoundTrip(c, graph, sn) ==
  IF Len(graph) = 0
  THEN Finish(c, "TypeError", <<>>, sn)
  ELSE StartWalk(c, graph[1].key, graph[1].val[1].key, graph[1].key, sn)

\* lines 204-243, g the outcome of this.routeGraph
OrderStart(c, g, sn) ==
  /\ _routeGraph' = g.rg
  /\ _orderedChildIds' = [_orderedChildIds EXCEPT !.n = Bump(@)]
  /\ IF ~g.ok
     THEN Finish(c, "SuperRouteTopologyError", g.errors, sn)
     ELSE IF Len(g.graph) = 1
     THEN Finish(c, "value", <<g.graph[1].val[1].val>>, sn)
     ELSE IF FirstDegree1(g.graph) # 0
     THEN StartOneWay(c, g.graph, FirstDegree1(g.graph), sn)
     ELSE StartRoundTrip(c, g.graph, sn)

\* lines 198-243 for accessor c, r the outcome of this.isRoutable
OrderAfter(c, r, sn) ==
  /\ _isRoutable' = r.ir
  /\ IF ~r.val
     THEN /\ OrderThrow(c, RouteTopologyError(r.rg), sn)
          /\ UNCHANGED _orderedChildIds
     ELSE IF _orderedChildIds.def
     THEN /\ _routeGraph' = r.rg
          /\ Finish(c, "value", _orderedChildIds.val, sn)
          /\ UNCHANGED _orderedChildIds
     ELSE OrderStart(c, routeGraph(r.rg), sn)

\* orderedChildIds up to the entry of the while loop (lines 198-243)
GetOrderedChildIds ==
  /\ Idle
  /\ UNCHANGED members
  /\ OrderAfter("orderedChildIds", isRoutable(_isRoutable, _routeGraph), _statistics.n)

\* lineStringFeature: orderedFeatureCollection checks isRoutable (line 269)
\* and reads orderedChildIds (line 277)
GetLineStringFeature ==
  /\ Idle
  /\ UNCHANGED members
  /\ OrderAfter("lineStringFeature", isRoutable(_isRoutable, _routeGraph), _statistics.n)

\* lines 413-442, r the outcome of this.isRoutable: a routable route reads
\* this.lineStringFeature, any other has its record at once
StatisticsAfter(r, sn) ==
  IF r.val THEN OrderAfter("statistics", r, sn)
  ELSE /\ _isRoutable' = r.ir
       /\ _routeGraph' = r.rg
       /\ Finish("statistics", "value", <<>>, sn)
       /\ UNCHANGED _orderedChildIds

GetStatistics ==
  /\ Idle
  /\ UNCHANGED members
  /\ IF _statistics.def
     THEN /\ Return("statistics", "value", _statistics.val)
          /\ UNCHANGED <<_routeGraph, _isRoutable, _orderedChildIds, _statistics>>
     ELSE IF FeaturesFail(members)
     THEN /\ _statistics' = [_statistics EXCEPT !.n = Bump(@)]
          /\ Return("statistics", "MemberError", <<>>)
          /\ UNCHANGED <<_routeGraph, _isRoutable, _orderedChildIds>>
     ELSE StatisticsAfter(isRoutable(_isRoutable, _routeGraph), Bump(_statistics.n))

\* lines 246-254 with orderedChildren.push done; on break, lines 257-258
WalkAdvance(pushed, newNext) ==
  IF nextId = endId /\ currId # NoId
  THEN /\ _orderedChildIds' = [_orderedChildIds EXCEPT !.def = TRUE, !.val = pushed]
       /\ Finish(caller, "value", pushed, _statistics.n)
  ELSE /\ orderedChildren' = pushed
       /\ lastId' = currId
       /\ currId' = nextId
       /\ nextId' = newNext
       /\ UNCHANGED <<_orderedChildIds, _statistics, caller, watch, first,
                      ret, pc, endId>>

WalkBody(graph) ==
  WalkAdvance(Append(orderedChildren, MapGet(MapGet(graph, currId), nextId)),
              _getNextNode(graph, nextId, currId))

\* one iteration of the while loop (lines 245-255)
WalkStep ==
  /\ pc = "walk"
  /\ nextId # Undefined
  /\ Len(orderedChildren) < WalkCap
  /\ WalkBody(routeGraph(_routeGraph).graph)
  /\ UNCHANGED <<members, _routeGraph, _isRoutable>>

\* the while condition fails (line 245); lines 257-258
WalkExit ==
  /\ pc = "walk"
  /\ nextId = Undefined
  /\ _orderedChildIds' = [_orderedChildIds EXCEPT !.def = TRUE, !.val = orderedChildren]
  /\ Finish(caller, "value", orderedChildren, _statistics.n)
  /\ UNCHANGED <<members, _routeGraph, _isRoutable>>

\* ---- specifications
Fresh ==
  /\ _routeGraph = [def |-> FALSE, val |-> <<>>, n |-> 0]
  /\ _isRoutable = [def |-> FALSE, val |-> FALSE, n |-> 0]
  /\ _orderedChildIds = [def |-> FALSE, val |-> <<>>, n |-> 0]
  /\ _statistics = [def |-> FALSE, val |-> <<>>, n |-> 0]
  /\ caller = "none"
  /\ first = [kind |-> "none", val |-> <<>>, n |-> 0]
  /\ ret = [op |-> "none", kind |-> "none", val |-> <<>>]
  /\ pc = "idle"
  /\ lastId = NoId /\ currId = NoId /\ nextId = NoId /\ endId = NoId
  /\ orderedChildren = <<>>

Init ==
  /\ members \in MemberLists(MaxMembers)
  /\ watch = "none"
  /\ Fresh

Next ==
  \/ GetRouteGraph
  \/ GetNodeDegrees
  \/ GetIsRoutable
  \/ GetEndNodes
  \/ GetOrderedChildIds
  \/ GetLineStringFeature
  \/ GetStatistics
  \/ WalkStep
  \/ WalkExit

Spec == Init /\ [][Next]_vars

\* routes whose members carry any of three roles
RoleShapes == Shapes({"main", "alternative", "forward"}, {FALSE}, {2})
InitRoles ==
  /\ members \in MemberListsOf(RoleShapes, MaxTagged)
  /\ watch = "none"
  /\ Fresh
SpecRoles == InitRoles /\ [][Next]_vars

\* routes on which one of the memoized accessors is watched
Memoized == {"orderedChildIds", "routeGraph", "isRoutable", "statistics"}
InitIdem ==
  /\ members \in MemberLists(MaxMembers)
  /\ watch \in Memoized
  /\ Fresh
SpecIdem == InitIdem /\ [][Next]_vars

\* routes whose ways have a surface tag or none
StatShapes == Shapes({"main"}, BOOLEAN, {2})
InitStats ==
  /\ members \in MemberListsOf(StatShapes, MaxTagged)
  /\ watch = "none"
  /\ Fresh
SpecStats == InitStats /\ [][Next]_vars

\* routes whose ways have 2..MaxCoords coordinates; the first outcome of
\* orderedChildIds or of lineStringFeature is recorded
LineShapes == Shapes({"main"}, {FALSE}, 2..MaxCoords)
InitLine ==
  /\ members \in MemberListsOf(LineShapes, MaxTagged)
  /\ watch \in {"orderedChildIds", "lineStringFeature"}
  /\ Fresh
SpecLine == InitLine /\ [][Next]_vars

\* ======================================================================
\* The route graph as the member list defines it, stated without the Map
\* ======================================================================
MainIds == {i \in 1..Len(members) : members[i].role # "alternative"}
FailingIds == {i \in MainIds : ~members[i].ok}
BuildFails == FailingIds # {}
Segments == MainIds \ FailingIds

\* the undirected edges: one per unordered endpoint pair
EdgeOfSegment(i) == {members[i].a, members[i].b}
Edges == {EdgeOfSegment(i) : i \in Segments}
GraphNodes == UNION Edges
Neighbours(n) == {m \in Nodes : {n, m} \in Edges}
Degree(n) == Cardinality(Neighbours(n))
DeadEnds == {n \in GraphNodes : Degree(n) = 1}
Junctions == {n \in GraphNodes : Degree(n) >= 3}
Closed(i) == members[i].a = members[i].b
NoSharedPair == \A i, j \in Segments : i # j => EdgeOfSegment(i) # EdgeOfSegment(j)

\* nodes in the order in which the members first name them (a before b)
RECURSIVE FirstSeen(_, _)
FirstSeen(i, seen) ==
  IF i > Len(members) THEN seen
  ELSE IF i \notin Segments THEN FirstSeen(i + 1, seen)
  ELSE LET has(s, n) == \E k \in 1..Len(s) : s[k] = n
           withA == IF has(seen, members[i].a) THEN seen ELSE Append(seen, members[i].a)
           withB == IF has(withA, members[i].b) THEN withA ELSE Append(withA, members[i].b)
       IN FirstSeen(i + 1, withB)
NodeOrder == FirstSeen(1, <<>>)

\* connected components
RECURSIVE ReachFrom(_, _)
ReachFrom(S, n) ==
  IF n = 0 THEN S ELSE ReachFrom(S \cup UNION {Neighbours(x) : x \in S}, n - 1)
Connected == \A x, y \in GraphNodes : y \in ReachFrom({x}, NumNodes)
MultiComponent == ~Connected

\* a signed reference's traversal: "-" swaps the segment's endpoints
StartOf(ref) == IF ref.sign = "-" THEN members[ref.id].b ELSE members[ref.id].a
EndOf(ref) == IF ref.sign = "-" THEN members[ref.id].a ELSE members[ref.id].b

Returned(op) == ret.op = op /\ ret.kind = "value"
Ordered == Returned("orderedChildIds")

\* the graph entry graph[x][y], or "none"
HasEntry(x, y) ==
  /\ MapHas(_routeGraph.val, x)
  /\ MapHas(MapGet(_routeGraph.val, x), y)
Entry(x, y) == MapGet(MapGet(_routeGraph.val, x), y)

\* ======================================================================
\* Claims
\* ======================================================================

\* C1 (as stated): isRoutable is true exactly when no node has 3 or more
\* distinct neighbours and the number of degree-1 nodes is exactly 0 or
\* exactly 2; it is false for exactly one degree-1 node.
C1_ExactlyZeroOrTwo ==
  (Returned("isRoutable") /\ ~BuildFails) =>
    (ret.val <=> (Junctions = {} /\ Cardinality(DeadEnds) \in {0, 2}))

\* C1 (amended): isRoutable is true exactly when no node has 3 or more
\* distinct neighbours and the number of degree-1 nodes is at most 2
\* (0, 1 or 2); a graph with exactly one degree-1 node, which only closed
\* segments produce, is routable.
C1_AtMostTwo ==
  (Returned("isRoutable") /\ ~BuildFails) =>
    (ret.val <=> (Junctions = {} /\ Cardinality(DeadEnds) <= 2))

C1_Witness ==
  /\ Returned("isRoutable") /\ ~BuildFails
  /\ ret.val = TRUE
  /\ Cardinality(DeadEnds) = 1

\* C2: on a routable route orderedChildIds has as many elements as the
\* graph has undirected edges and holds each edge exactly once.
C2_EachEdgeOnce ==
  Ordered =>
    /\ Len(ret.val) = Cardinality(Edges)
    /\ \A e \in Edges :
         Cardinality({k \in 1..Len(ret.val) : EdgeOfSegment(ret.val[k].id) = e}) = 1

\* C3: on a routable route the ordered sequence chains: the end node of
\* element k is the start node of element k+1 (a "-" reference swaps the
\* segment's endpoints), and with no degree-1 node the end node of the last
\* element is the start node of the first.
C3_Chained ==
  Ordered =>
    /\ \A k \in 1..(Len(ret.val) - 1) : EndOf(ret.val[k]) = StartOf(ret.val[k + 1])
    /\ (DeadEnds = {} => EndOf(ret.val[Len(ret.val)]) = StartOf(ret.val[1]))

C3_Witness ==
  /\ Ordered
  /\ DeadEnds = {}
  /\ Len(ret.val) = 3
  /\ \A k \in 1..3 : ~Closed(ret.val[k].id)

\* C4: a route whose graph has two or more connected components is never
\* partially resolved: orderedChildIds returns no sequence for it.
C4_NeverPartial ==
  MultiComponent => ~Ordered

\* C5: whenever isRoutable is false, endNodes and orderedChildIds raise
\* RouteTopologyError and no other kind of error.
C5_OnlyTopologyError ==
  (ret.op \in {"endNodes", "orderedChildIds"} /\ _isRoutable.def /\ ~_isRoutable.val) =>
    ret.kind = "RouteTopologyError"

\* C6: a RouteTopologyError raised on a built graph lists every node of
\* degree 3 or more in graph order, followed by every degree-1 node exactly
\* when there are more than two of them; the list is never empty.
C6_ErrNodes ==
  ret.kind = "RouteTopologyError" =>
    LET junction(n) == Degree(n) >= 3
        deadEnd(n) == Degree(n) = 1
    IN /\ ret.val = SelectSeq(NodeOrder, junction)
                      \o (IF Cardinality(DeadEnds) > 2
                          THEN SelectSeq(NodeOrder, deadEnd) ELSE <<>>)
       /\ ret.val # <<>>

C6_Witness ==
  /\ ret.kind = "RouteTopologyError"
  /\ ret.op = "endNodes"
  /\ Junctions # {}
  /\ Cardinality(DeadEnds) > 2

\* C7: isRoutable never raises; when the build fails its verdict is false,
\* the false verdict is cached, and every later access returns false.
C7_NeverRaises ==
  /\ ret.op = "isRoutable" =>
       /\ ret.kind = "value"
       /\ _isRoutable.def /\ _isRoutable.val = ret.val
  /\ (BuildFails /\ ret.op = "isRoutable") => ret.val = FALSE
  /\ (BuildFails /\ _isRoutable.def) => _isRoutable.val = FALSE

C7_Witness ==
  /\ BuildFails
  /\ Returned("isRoutable")
  /\ ret.val = FALSE
  /\ _isRoutable.def /\ ~_routeGraph.def

\* C8: a route with no main segment is not routable: isRoutable is false.
C8_EmptyNotRoutable ==
  (MainIds = {} /\ Returned("isRoutable")) => ret.val = FALSE

\* C9: the build is all-or-nothing: routeGraph returns a graph exactly when
\* no member failed; otherwise it raises one composite error listing every
\* failing member once, in member order, and caches no graph; no graph
\* entry refers to a failing member.
C9_AllOrNothing ==
  LET failing(i) == i \in FailingIds
      ids == [i \in 1..Len(members) |-> i]
  IN /\ ret.op = "routeGraph" =>
          /\ (ret.kind = "value") <=> ~BuildFails
          /\ ret.kind = "value" => (_routeGraph.def /\ ret.val = _routeGraph.val)
          /\ ret.kind # "value" =>
               /\ ret.kind = "SuperRouteTopologyError"
               /\ ret.val = SelectSeq(ids, failing)
               /\ ret.val # <<>>
     /\ BuildFails => ~_routeGraph.def
     /\ _routeGraph.def =>
          \A x, y \in Nodes : HasEntry(x, y) => Entry(x, y).id \in Segments

C9_Witness ==
  /\ ret.op = "routeGraph"
  /\ ret.kind = "SuperRouteTopologyError"
  /\ Len(ret.val) = 2
  /\ Segments # {}

\* C10 (as stated): after a successful build with no shared endpoint pair,
\* every segment id with endpoints (A, B) has graph[A][B] = id and
\* graph[B][A] = "-" id, closed segments included.
C10_BothEntries ==
  (_routeGraph.def /\ NoSharedPair) =>
    \A i \in Segments :
      /\ HasEntry(members[i].a, members[i].b)
      /\ Entry(members[i].a, members[i].b) = [sign |-> "", id |-> i]
      /\ HasEntry(members[i].b, members[i].a)
      /\ Entry(members[i].b, members[i].a) = [sign |-> "-", id |-> i]

\* C10 (amended): after a successful build with no shared endpoint pair,
\* every segment id with distinct endpoints (A, B) has graph[A][B] = id and
\* graph[B][A] = "-" id; a closed segment (A = B) has the single entry
\* graph[A][A] = "-" id.
C10_EntriesPerSegment ==
  (_routeGraph.def /\ NoSharedPair) =>
    \A i \in Segments :
      /\ HasEntry(members[i].a, members[i].b)
      /\ HasEntry(members[i].b, members[i].a)
      /\ Entry(members[i].b, members[i].a) = [sign |-> "-", id |-> i]
      /\ ~Closed(i) => Entry(members[i].a, members[i].b) = [sign |-> "", id |-> i]

C10_Witness ==
  /\ _routeGraph.def /\ NoSharedPair
  /\ \E i, j \in Segments : Closed(i) /\ ~Closed(j)

\* the members a graph value's entries refer to, and its keys
RefsOf(inner) == {inner[j].val.id : j \in 1..Len(inner)}
EntryIds(g) == UNION {RefsOf(g[i].val) : i \in 1..Len(g)}
KeysOf(g) == {g[i].key : i \in 1..Len(g)}
ExactMainIds == {i \in 1..Len(members) : members[i].role = "main"}
RoleIds(r) == {i \in 1..Len(members) : members[i].role = r}
NodesOf(ids) == UNION {EdgeOfSegment(i) : i \in ids}

\* C11 (as stated): the route graph has nodes and edges only for segments
\* whose role is exactly "main"; a segment with role "alternative" or any
\* other role adds no node and no edge, and is not counted in the
\* statistics.
C11_OnlyMain ==
  /\ Returned("routeGraph") =>
       /\ KeysOf(ret.val) = NodesOf(ExactMainIds)
       /\ EntryIds(ret.val) \subseteq ExactMainIds
  /\ Returned("statistics") => ret.val.numSegments = Cardinality(ExactMainIds)

\* C11 (amended): the route graph has nodes and edges for every segment
\* whose role is not "alternative" ("main", but also any other role value);
\* only a segment with role "alternative" adds no node and no edge and is
\* not counted in the statistics.
C11_NotAlternative ==
  /\ Returned("routeGraph") =>
       /\ KeysOf(ret.val) = NodesOf(MainIds)
       /\ EntryIds(ret.val) \subseteq MainIds
       /\ \A i \in MainIds : \E x \in KeysOf(ret.val) :
            EdgeOfSegment(i) \subseteq {x} \cup KeysOf(MapGet(ret.val, x))
  /\ Returned("statistics") => ret.val.numSegments = Cardinality(MainIds)

\* statistics of a route with an "alternative" and a "forward" member
C11_Witness ==
  /\ Returned("statistics")
  /\ _routeGraph.def
  /\ RoleIds("alternative") # {} /\ RoleIds("forward") # {}
  /\ NodesOf(RoleIds("alternative")) \cap KeysOf(_routeGraph.val) = {}

\* C12: under any interleaving of accessor calls, every later access to
\* orderedChildIds, routeGraph, isRoutable or statistics has the outcome of
\* the first access to that accessor: the same value, or the same error.
C12_SameOutcome ==
  (ret.op = watch /\ first.n >= 1) =>
    (ret.kind = first.kind /\ ret.val = first.val)

\* statistics read again after an ordering walk has run
C12_Witness ==
  /\ watch = "statistics" /\ ret.op = watch /\ first.n = 2
  /\ ret.kind = "value"
  /\ _orderedChildIds.def /\ Len(_orderedChildIds.val) >= 2

\* C13 (as stated): across any sequence of accessor calls each core
\* computation (the graph build, the routability decision, the ordering walk,
\* the statistics aggregation) runs at most once, also when the build fails
\* and when the route has a single graph node.
C13_AtMostOnce ==
  /\ _routeGraph.n <= 1
  /\ _isRoutable.n <= 1
  /\ _orderedChildIds.n <= 1
  /\ _statistics.n <= 1

\* C14 (as stated): on every route with isRoutable true, endNodes returns two
\* defined node identifiers that are nodes of the graph: the two degree-1
\* nodes in bin order for a one-way route, the first degree-2 node twice for
\* a round trip; neither element is ever undefined.
C14_DefinedEndNodes ==
  Returned("endNodes") =>
    /\ ret.val[1] \in GraphNodes /\ ret.val[2] \in GraphNodes
    /\ ret.val[1] # Undefined /\ ret.val[2] # Undefined

\* the ordered sequence of a routable route whose graph is built: the cached
\* one, or the single reference of a one-node graph
OrderOf ==
  IF _orderedChildIds.def THEN _orderedChildIds.val
  ELSE <<_routeGraph.val[1].val[1].val>>

\* a segment's coordinates in the direction of its reference
Directed(ref) ==
  [k \in 1..members[ref.id].len |->
     Coordinate(members, ref.id,
                IF ref.sign = "-" THEN members[ref.id].len + 1 - k ELSE k)]

RECURSIVE SumLen(_)
SumLen(refs) ==
  IF Len(refs) = 0 THEN 0 ELSE members[Head(refs).id].len + SumLen(Tail(refs))

RECURSIVE Joined(_)
Joined(refs) ==
  IF Len(refs) = 1 THEN Directed(refs[1])
  ELSE Joined(SubSeq(refs, 1, Len(refs) - 1)) \o Tail(Directed(refs[Len(refs)]))

\* C15: the assembled LineString of ordered segments s1..sn is the
\* direction-corrected coordinates of s1 followed, for each later segment, by
\* its direction-corrected coordinates without the leading one; it has the
\* sum of the segments' coordinate counts minus (n - 1) coordinates; and
\* building it leaves the outcome of every later orderedChildIds or
\* lineStringFeature access what it was at the first access.
C15_Assembled ==
  /\ Returned("lineStringFeature") =>
       /\ ret.val = Joined(OrderOf)
       /\ Len(ret.val) = SumLen(OrderOf) - (Len(OrderOf) - 1)
  /\ (ret.op = watch /\ first.n >= 1) =>
       (ret.kind = first.kind /\ ret.val = first.val)

\* the line of two segments, the second one reversed, built a second time
C15_Witness ==
  /\ Returned("lineStringFeature") /\ watch = "lineStringFeature" /\ first.n = 2
  /\ Len(OrderOf) = 2
  /\ OrderOf[2].sign = "-"
  /\ \E i \in 1..Len(members) : members[i].len > 2

SurfaceIds == {i \in 1..Len(members) : members[i].surface}

\* C16 (as stated): a route of exactly two main segments of which exactly one
\* has a surface tag, in either member order, has statistics with
\* surfacePct = 50 and surfaceWays holding exactly the untagged segment.
C16_FiftyPct ==
  (/\ Returned("statistics")
   /\ Len(members) = 2 /\ Cardinality(MainIds) = 2
   /\ Cardinality(SurfaceIds) = 1) =>
    /\ ret.val.surfacePct = 50
    /\ \E i \in MainIds \ SurfaceIds : ret.val.surfaceWays = <<i>>

\* the segments on the same unordered endpoint pair as segment i
Colliding(i) == {j \in Segments : EdgeOfSegment(j) = EdgeOfSegment(i)}
LastOf(S) == CHOOSE j \in S : \A k \in S : k <= j
Superseded == {i \in Segments : i # LastOf(Colliding(i))}

\* C17: when several main segments share one unordered endpoint pair {A, B},
\* after the build graph[A][B] and graph[B][A] both refer to the last of them
\* in member order, with the signs of that segment's own endpoint order (no
\* sign from its first to its second end node, "-" back); no entry refers to
\* an earlier one; and A's and B's neighbour maps count B and A once.
C17_LastWins ==
  _routeGraph.def =>
    /\ \A i \in Segments :
         /\ HasEntry(members[i].a, members[i].b)
         /\ HasEntry(members[i].b, members[i].a)
         /\ Entry(members[i].a, members[i].b).id = LastOf(Colliding(i))
         /\ Entry(members[i].b, members[i].a).id = LastOf(Colliding(i))
    /\ \A i \in Segments \ Superseded :
         ~Closed(i) =>
           /\ Entry(members[i].a, members[i].b).sign = ""
           /\ Entry(members[i].b, members[i].a).sign = "-"
    /\ EntryIds(_routeGraph.val) \cap Superseded = {}
    /\ \A x \in GraphNodes :
         Len(MapGet(_routeGraph.val, x)) = Cardinality(Neighbours(x))

\* a built graph of three segments on one pair, the last in the other order
C17_Witness ==
  /\ _routeGraph.def
  /\ Len(members) = 3
  /\ Cardinality(Superseded) = 2
  /\ members[3].a = members[1].b /\ members[3].b = members[1].a
  /\ ~Closed(3)

\* the neighbours of the current node other than the previous one
Onward == {k \in Neighbours(currId) : k # lastId}
RoundTripWalk == pc = "walk" /\ endId # NoId
RECURSIVE EntryCount(_)
EntryCount(g) == IF Len(g) = 0 THEN 0 ELSE Len(Head(g).val) + EntryCount(Tail(g))

\* C18: on a routable route with a non-empty graph the ordering walk ends
\* after finitely many steps: every iteration appends one reference, the
\* walk can always take its next iteration or leave the loop, and it never
\* holds more references than the graph has entries.  A walk leaves by the
\* loop condition exactly when the current node has no neighbour other than
\* the previous node, which is how a one-way walk ends; a round-trip walk
\* stops in the very step in which the current node becomes the start node
\* again, never before a step was taken.
C18_WalkStops ==
  /\ [](pc = "walk" =>
          /\ Len(orderedChildren) <= EntryCount(_routeGraph.val)
          /\ EntryCount(_routeGraph.val) < WalkCap
          /\ (nextId = Undefined) <=> (Onward = {})
          /\ ENABLED WalkStep \/ ENABLED WalkExit)
  /\ [](RoundTripWalk => nextId # Undefined /\ (lastId = NoId => currId = endId))
  /\ [][(pc = "walk" /\ pc' = "walk") =>
          Len(orderedChildren') = Len(orderedChildren) + 1]_vars
  /\ [][(pc = "walk" /\ endId = NoId) =>
          (pc' = "idle" <=> nextId = Undefined)]_vars
  /\ [][RoundTripWalk =>
          /\ (pc' = "idle" <=> nextId = endId)
          /\ pc' = "idle" => Len(_orderedChildIds'.val) >= 1]_vars

\* a round-trip walk two steps away from its start node
C18_Witness ==
  /\ RoundTripWalk
  /\ Len(orderedChildren) = 2
  /\ nextId = endId

\* the references the built graph holds
RefSet(inner) == {inner[j].val : j \in 1..Len(inner)}
GraphRefs == UNION {RefSet(_routeGraph.val[i].val) : i \in 1..Len(_routeGraph.val)}

\* C19: at every step of the ordering walk after the first, the current node
\* has at most one neighbour other than the previous node, so the next node
\* is never a choice among several; and the reference appended for
\* (current, next) is an entry of the graph.
C19_Unambiguous ==
  /\ [](pc = "walk" =>
          /\ lastId # NoId => Cardinality(Onward) <= 1
          /\ nextId # Undefined => HasEntry(currId, nextId)
          /\ \A k \in 1..Len(orderedChildren) : orderedChildren[k] \in GraphRefs)
  /\ [][(pc = "walk" /\ pc' = "walk") =>
          orderedChildren' = Append(orderedChildren, Entry(currId, nextId))]_vars

\* a walk past its first step with one way on
C19_Witness ==
  /\ pc = "walk" /\ lastId # NoId
  /\ Cardinality(Onward) = 1
  /\ nextId # Undefined
  /\ Len(orderedChildren) >= 1

\* what endNodes yields in the current state
EndNodesNow == endNodes(_isRoutable, _routeGraph)

\* C20 (as stated): on every route with isRoutable true and a non-empty graph
\* endNodes and orderedChildIds agree: the first ordered reference, taken in
\* its direction, starts at endNodes[0] and the last one ends at endNodes[1],
\* for one-way and round-trip routes and any member order.
C20_EndsAgree ==
  (Ordered /\ Len(ret.val) >= 1) =>
    /\ EndNodesNow.kind = "value"
    /\ StartOf(ret.val[1]) = EndNodesNow.val[1]
    /\ EndOf(ret.val[Len(ret.val)]) = EndNodesNow.val[2]

====
